---- MODULE Spec2Model ----
(***************************************************************************)
(* A model of gotestmd's two cores:                                        *)
(*   - package shell: the persistent bash session (Bash.Run, Bash.Close,   *)
(*     Bash.init, the stdout and stderr listeners), and                    *)
(*   - package generator: the suite linearization and the bash script      *)
(*     emitted by Suite.BashString, together with the way bash executes the *)
(*     emitted setup and cleanup entry points and reads a try_run line.    *)
(* Text is modelled as a sequence of one-character strings, so trimming,   *)
(* suffix tests and slicing are computed as the Go code computes them.     *)
(***************************************************************************)
EXTENDS Integers, Sequences, FiniteSets, TLC

VARIABLES
    \* ---- package shell: the Bash struct and its goroutines ----
    initialized,   \* b.once has run b.init
    cancelled,     \* b.ctx.Err() != nil
    released,      \* Close has closed b.resources (the three pipes)
    procState,     \* the bash process: "none", "running", "exited"
    starts,        \* how many times b.cmd.Start() ran
    listeners,     \* how many listener goroutines were launched
    stdin,         \* what was written to bash's stdin and not yet executed
    bashPos,       \* writes the command at the head of stdin has done
    lastStatus,    \* bash's $?
    stdoutPipe,    \* bytes written to stdout and not yet read
    stderrPipe,    \* bytes written to stderr and not yet read
    outPc,         \* stdoutHandler: "none", "loop", "read", "sendOut", "sendErr", "done"
    outBuf,        \* stdoutHandler: buffer[:cur]
    outVal,        \* stdoutHandler: the value it is sending
    errPc,         \* stderrHandler: "none", "loop", "read", "send", "done"
    errVal,        \* stderrHandler: the error text it is sending
    runPc,         \* the caller of Run: "idle", "ctx", "write1", "write2", "select"
    runCmd,        \* the command of the Run in progress
    runAfter,      \* whether that Run was called after a Close had cancelled
    runWrote,      \* stdin writes that Run has done
    runCount,      \* Run calls that returned
    lastRun,       \* the Run that returned last: its command and its result
    closePc,       \* the caller of Close: "idle", "cancel", "write", "wait", "release"
    closeCount,    \* Close calls that returned
    waited,        \* b.cmd.Wait() has returned once
    \* ---- package generator: the Suite tree and the emitted script ----
    parents,       \* Suite.Parents of every suite (fixed at construction)
    run,           \* Suite.Run of every suite
    cleanup,       \* Suite.Cleanup of every suite
    renders,       \* BashString calls made so far
    target,        \* the suite and retry flag of the last BashString call
    script,        \* what the last BashString call returned
    prevTarget,    \* the suite and retry flag of the call before it
    prevScript,    \* what the call before it returned
    \* ---- bash executing the emitted script ----
    entry,         \* the script's first argument: "none", "setup", "cleanup"
    execFn,        \* the function being executed, "none" or "done"
    execIdx,       \* lines of that function already executed
    execStatus,    \* $?
    exitCode,      \* the script's exit status, -1 while it has not exited
    executed,      \* the command blocks executed so far, in order
    failed,        \* a command block has failed (after its retries, under try_run)
    inTryRun,      \* the script is inside a try_run call
    attempt,       \* try_run: attempts made by the current or last call
    elapsed,       \* try_run: seconds since start_time
    \* ---- a try_run line written by Body.BashString, read back by bash ----
    qBlock,        \* the command block (text)
    qLine,         \* the line emitted for it, <<>> before it is emitted
    qPos,          \* characters of the line bash has read
    qMode,         \* bash's word reader: "none", "blank", "word", "quoted", "done"
    qWords         \* the words bash has read from the line

shellVars == <<initialized, cancelled, released, procState, starts, listeners,
               stdin, bashPos, lastStatus, stdoutPipe, stderrPipe,
               outPc, outBuf, outVal, errPc, errVal,
               runPc, runCmd, runAfter, runWrote, runCount, lastRun,
               closePc, closeCount, waited>>

genVars == <<parents, run, cleanup, renders, target, script, prevTarget, prevScript>>

execVars == <<entry, execFn, execIdx, execStatus, exitCode, executed, failed,
              inTryRun, attempt, elapsed>>

quoteVars == <<qBlock, qLine, qPos, qMode, qWords>>

vars == <<shellVars, genVars, execVars, quoteVars>>

(***************************************************************************)
(* Bounds of the model.                                                    *)
(***************************************************************************)
MaxRuns == 2
MaxCloses == 2

(***************************************************************************)
(* Text helpers (package strings).                                         *)
(***************************************************************************)
White == {" ", "\n", "\t"}

RECURSIVE TrimLeft(_)
TrimLeft(s) ==
    IF s # <<>> /\ Head(s) \in White THEN TrimLeft(Tail(s)) ELSE s

RECURSIVE TrimRight(_)
TrimRight(s) ==
    IF s # <<>> /\ s[Len(s)] \in White THEN TrimRight(SubSeq(s, 1, Len(s) - 1)) ELSE s

TrimSpace(s) == TrimRight(TrimLeft(s))

HasSuffix(s, suf) ==
    /\ Len(s) >= Len(suf)
    /\ SubSeq(s, Len(s) - Len(suf) + 1, Len(s)) = suf

Min(a, b) == IF a < b THEN a ELSE b

RECURSIVE Flatten(_)
Flatten(ss) == IF ss = <<>> THEN <<>> ELSE Head(ss) \o Flatten(Tail(ss))

(***************************************************************************)
(* package shell, constants.  bufferSize is 1 << 16 in the source; the     *)
(* model scales it down so that a full buffer is reachable, and keeps it   *)
(* larger than every stream the small commands below produce.              *)
(***************************************************************************)
bufferSize == 12

OKText == <<"O", "K">>
FAILEDText == <<"F", "A", "I", "L", "E", "D">>
NL == <<"\n">>

\* What the status probe prints for a given $?.
checkStatus(status) == IF status = 0 THEN OKText \o NL ELSE FAILEDText \o NL

Xs(n) == [i \in 1..n |-> "x"]

(***************************************************************************)
(* The commands a caller submits.  A command is the sequence of writes it  *)
(* makes (fd 1 = stdout, fd 2 = stderr) and its exit status.               *)
(***************************************************************************)
W(fd, text) == [fd |-> fd, text |-> text]

Commands ==
    [ echo_a   |-> [writes |-> <<W(1, <<"a", "\n">>)>>, status |-> 0],
      echo_OK  |-> [writes |-> <<W(1, OKText \o NL)>>, status |-> 0],
      false    |-> [writes |-> <<>>, status |-> 1],
      OK_false |-> [writes |-> <<W(1, OKText \o NL)>>, status |-> 1],
      ls_none  |-> [writes |-> <<W(2, <<"e">>)>>, status |-> 1],
      warn     |-> [writes |-> <<W(2, <<"w">>)>>, status |-> 0],
      big      |-> [writes |-> <<W(1, Xs(bufferSize))>>, status |-> 0],
      big1     |-> [writes |-> <<W(1, Xs(bufferSize - 1))>>, status |-> 0] ]

CmdNames == DOMAIN Commands

\* The command's own standard-output and standard-error text.
StdoutOf(c) == Flatten([i \in 1..Len(Commands[c].writes) |->
                   IF Commands[c].writes[i].fd = 1 THEN Commands[c].writes[i].text ELSE <<>>])
StderrOf(c) == Flatten([i \in 1..Len(Commands[c].writes) |->
                   IF Commands[c].writes[i].fd = 2 THEN Commands[c].writes[i].text ELSE <<>>])

Item(k, c) == [k |-> k, c |-> c]

NilErr == [kind |-> "nil", text |-> <<>>]
FailedErr == [kind |-> "failed", text |-> <<>>]      \* errors.New("command has failed")
CanceledErr == [kind |-> "canceled", text |-> <<>>]  \* context.Canceled
PipeErr == [kind |-> "io", text |-> <<>>]            \* a failed stdin write
StderrErr(text) == [kind |-> "stderr", text |-> text]

\* lastRun before any Run has returned.
NoRun == [cmd |-> "none", out |-> <<>>, err |-> NilErr, afterClose |-> FALSE, wrote |-> 0]

(***************************************************************************)
(* Bash.init: starts the process and launches the two listeners.           *)
(***************************************************************************)
init ==
    /\ initialized' = TRUE
    /\ procState' = "running"
    /\ starts' = starts + 1
    /\ listeners' = listeners + 2
    /\ outPc' = "loop"
    /\ errPc' = "loop"

\* A variant without the sync.Once: every call runs init.
onceDoEveryCall == init

\* b.once.Do(b.init)
onceDo ==
    IF initialized
    THEN UNCHANGED <<initialized, procState, starts, listeners, outPc, errPc>>
    ELSE init

\* A write to b.stdin succeeds while the process lives and the pipe is open.
stdinWritable == procState = "running" /\ ~released

\* A read end still open in this process: Wait and Close both close it.
readEndOpen == ~waited /\ ~released

(***************************************************************************)
(* The bash process: executes what arrives on its stdin, in order.         *)
(***************************************************************************)
bashStep ==
    /\ procState = "running"
    /\ stdin # <<>>
    /\ LET it == Head(stdin) IN
        CASE it.k = "cmd" ->
               LET ws == Commands[it.c].writes IN
               /\ IF bashPos < Len(ws)
                  THEN LET w == ws[bashPos + 1] IN
                       /\ stdoutPipe' = IF w.fd = 1 THEN stdoutPipe \o w.text ELSE stdoutPipe
                       /\ stderrPipe' = IF w.fd = 2 THEN stderrPipe \o w.text ELSE stderrPipe
                  ELSE UNCHANGED <<stdoutPipe, stderrPipe>>
               /\ IF bashPos + 1 >= Len(ws)
                  THEN /\ stdin' = Tail(stdin)
                       /\ bashPos' = 0
                       /\ lastStatus' = Commands[it.c].status
                  ELSE /\ bashPos' = bashPos + 1
                       /\ UNCHANGED <<stdin, lastStatus>>
               /\ UNCHANGED procState
          [] it.k = "probe" ->
               /\ stdoutPipe' = stdoutPipe \o checkStatus(lastStatus)
               /\ stdin' = Tail(stdin)
               /\ lastStatus' = 0
               /\ UNCHANGED <<stderrPipe, bashPos, procState>>
          [] it.k = "exit" ->
               /\ procState' = "exited"
               /\ UNCHANGED <<stdin, stdoutPipe, stderrPipe, bashPos, lastStatus>>
    /\ UNCHANGED <<initialized, cancelled, released, starts, listeners,
                   outPc, outBuf, outVal, errPc, errVal,
                   runPc, runCmd, runAfter, runWrote, runCount, lastRun,
                   closePc, closeCount, waited>>
    /\ UNCHANGED <<genVars, execVars, quoteVars>>

(***************************************************************************)
(* Bash.stderrHandler                                                      *)
(***************************************************************************)
stderrLoop ==
    /\ errPc = "loop"
    /\ errPc' = IF cancelled THEN "done" ELSE "read"
    /\ UNCHANGED <<initialized, cancelled, released, procState, starts, listeners,
                   stdin, bashPos, lastStatus, stdoutPipe, stderrPipe,
                   outPc, outBuf, outVal, errVal,
                   runPc, runCmd, runAfter, runWrote, runCount, lastRun,
                   closePc, closeCount, waited>>
    /\ UNCHANGED <<genVars, execVars, quoteVars>>

stderrRead ==
    /\ errPc = "read"
    /\ \/ /\ readEndOpen
          /\ stderrPipe # <<>>
          /\ LET n == Min(Len(stderrPipe), bufferSize) IN
             /\ errVal' = SubSeq(stderrPipe, 1, n)
             /\ stderrPipe' = SubSeq(stderrPipe, n + 1, Len(stderrPipe))
          /\ errPc' = "send"
       \/ /\ ~readEndOpen \/ (stderrPipe = <<>> /\ procState = "exited")
          /\ errPc' = "done"
          /\ UNCHANGED <<errVal, stderrPipe>>
    /\ UNCHANGED <<initialized, cancelled, released, procState, starts, listeners,
                   stdin, bashPos, lastStatus, stdoutPipe,
                   outPc, outBuf, outVal,
                   runPc, runCmd, runAfter, runWrote, runCount, lastRun,
                   closePc, closeCount, waited>>
    /\ UNCHANGED <<genVars, execVars, quoteVars>>

(***************************************************************************)
(* Bash.stdoutHandler.  outBuf is buffer[:cur]; outVal is `output`.        *)
(***************************************************************************)
stdoutLoop ==
    /\ outPc = "loop"
    /\ outPc' = IF cancelled THEN "done" ELSE "read"
    /\ UNCHANGED <<initialized, cancelled, released, procState, starts, listeners,
                   stdin, bashPos, lastStatus, stdoutPipe, stderrPipe,
                   outBuf, outVal, errPc, errVal,
                   runPc, runCmd, runAfter, runWrote, runCount, lastRun,
                   closePc, closeCount, waited>>
    /\ UNCHANGED <<genVars, execVars, quoteVars>>

\* The text delivered when the trimmed buffer r ends with OK.
okOutput(r, output) == IF Len(r) > 2 THEN SubSeq(r, 1, Len(r) - 3) ELSE output

\* cur after a read that found no sentinel.
nextCur(cur, n) == IF cur + n = bufferSize THEN 0 ELSE cur + n

stdoutRead ==
    /\ outPc = "read"
    /\ \/ /\ readEndOpen
          /\ stdoutPipe # <<>>
          /\ LET cur == Len(outBuf)
                 n == Min(Len(stdoutPipe), bufferSize - cur)
                 buffer == outBuf \o SubSeq(stdoutPipe, 1, n)
                 r == TrimSpace(buffer)
             IN
             /\ stdoutPipe' = SubSeq(stdoutPipe, n + 1, Len(stdoutPipe))
             /\ IF HasSuffix(r, OKText)
                THEN /\ outVal' = okOutput(r, outVal)
                     /\ outPc' = "sendOut"
                     /\ outBuf' = buffer
                ELSE IF HasSuffix(r, FAILEDText)
                THEN /\ outPc' = "sendErr"
                     /\ outBuf' = buffer
                     /\ UNCHANGED outVal
                ELSE /\ outBuf' = SubSeq(buffer, 1, nextCur(cur, n))
                     /\ outPc' = "loop"
                     /\ UNCHANGED outVal
       \/ /\ ~readEndOpen \/ (stdoutPipe = <<>> /\ procState = "exited")
          /\ outPc' = "done"
          /\ UNCHANGED <<outBuf, outVal, stdoutPipe>>
    /\ UNCHANGED <<initialized, cancelled, released, procState, starts, listeners,
                   stdin, bashPos, lastStatus, stderrPipe,
                   errPc, errVal,
                   runPc, runCmd, runAfter, runWrote, runCount, lastRun,
                   closePc, closeCount, waited>>
    /\ UNCHANGED <<genVars, execVars, quoteVars>>

(***************************************************************************)
(* Bash.Run, one action per statement that can interleave with the         *)
(* listeners, the process and Close.                                       *)
(***************************************************************************)
\* Run returns (out, err): the call is recorded with what it wrote to stdin.
runReturn(out, err, wrote) ==
    /\ lastRun' = [cmd |-> runCmd, out |-> out, err |-> err,
                   afterClose |-> runAfter, wrote |-> wrote]
    /\ runCount' = runCount + 1
    /\ runPc' = "idle"
    /\ runCmd' = "none"
    /\ runAfter' = FALSE
    /\ runWrote' = 0

\* Run(s) is called and runs b.once.Do(b.init).
RunCall(c) ==
    /\ runPc = "idle"
    /\ runCount < MaxRuns
    /\ onceDo
    /\ runPc' = "ctx"
    /\ runCmd' = c
    /\ runAfter' = cancelled
    /\ runWrote' = 0
    /\ UNCHANGED <<cancelled, released, stdin, bashPos, lastStatus, stdoutPipe,
                   stderrPipe, outBuf, outVal, errVal, runCount, lastRun,
                   closePc, closeCount, waited>>
    /\ UNCHANGED <<genVars, execVars, quoteVars>>

\* A variant of the check below that lets every call through.
runCtxCheckSkipped ==
    /\ runPc' = "write1"
    /\ UNCHANGED <<runCmd, runAfter, runWrote, runCount, lastRun>>

\* if b.ctx.Err() != nil { return "", b.ctx.Err() }
runCtxCheck ==
    IF cancelled
    THEN runReturn(<<>>, CanceledErr, runWrote)
    ELSE /\ runPc' = "write1"
         /\ UNCHANGED <<runCmd, runAfter, runWrote, runCount, lastRun>>

RunCtx ==
    /\ runPc = "ctx"
    /\ runCtxCheck
    /\ UNCHANGED <<initialized, cancelled, released, procState, starts, listeners,
                   stdin, bashPos, lastStatus, stdoutPipe, stderrPipe,
                   outPc, outBuf, outVal, errPc, errVal,
                   closePc, closeCount, waited>>
    /\ UNCHANGED <<genVars, execVars, quoteVars>>

\* b.stdin.Write([]byte(s + "\n"))
RunWriteCommand ==
    /\ runPc = "write1"
    /\ IF stdinWritable
       THEN /\ stdin' = Append(stdin, Item("cmd", runCmd))
            /\ runWrote' = runWrote + 1
            /\ runPc' = "write2"
            /\ UNCHANGED <<runCmd, runAfter, runCount, lastRun>>
       ELSE /\ runReturn(<<>>, PipeErr, runWrote)
            /\ UNCHANGED stdin
    /\ UNCHANGED <<initialized, cancelled, released, procState, starts, listeners,
                   bashPos, lastStatus, stdoutPipe, stderrPipe,
                   outPc, outBuf, outVal, errPc, errVal,
                   closePc, closeCount, waited>>
    /\ UNCHANGED <<genVars, execVars, quoteVars>>

\* b.stdin.Write([]byte(checkStatus + "\n"))
RunWriteProbe ==
    /\ runPc = "write2"
    /\ IF stdinWritable
       THEN /\ stdin' = Append(stdin, Item("probe", "none"))
            /\ runWrote' = runWrote + 1
            /\ runPc' = "select"
            /\ UNCHANGED <<runCmd, runAfter, runCount, lastRun>>
       ELSE /\ runReturn(<<>>, PipeErr, runWrote)
            /\ UNCHANGED stdin
    /\ UNCHANGED <<initialized, cancelled, released, procState, starts, listeners,
                   bashPos, lastStatus, stdoutPipe, stderrPipe,
                   outPc, outBuf, outVal, errPc, errVal,
                   closePc, closeCount, waited>>
    /\ UNCHANGED <<genVars, execVars, quoteVars>>

\* case err = <-b.errCh, the sender being the stderr listener
RunRecvStderr ==
    /\ runPc = "select"
    /\ errPc = "send"
    /\ runReturn(<<>>, StderrErr(errVal), runWrote)
    /\ errPc' = "loop"
    /\ errVal' = <<>>
    /\ UNCHANGED <<initialized, cancelled, released, procState, starts, listeners,
                   stdin, bashPos, lastStatus, stdoutPipe, stderrPipe,
                   outPc, outBuf, outVal, closePc, closeCount, waited>>
    /\ UNCHANGED <<genVars, execVars, quoteVars>>

\* case err = <-b.errCh, the sender being the stdout listener (FAILED)
RunRecvFailed ==
    /\ runPc = "select"
    /\ outPc = "sendErr"
    /\ runReturn(<<>>, FailedErr, runWrote)
    /\ outPc' = "loop"
    /\ outBuf' = <<>>
    /\ UNCHANGED <<initialized, cancelled, released, procState, starts, listeners,
                   stdin, bashPos, lastStatus, stdoutPipe, stderrPipe,
                   outVal, errPc, errVal, closePc, closeCount, waited>>
    /\ UNCHANGED <<genVars, execVars, quoteVars>>

\* case output = <-b.outCh
RunRecvOutput ==
    /\ runPc = "select"
    /\ outPc = "sendOut"
    /\ runReturn(outVal, NilErr, runWrote)
    /\ outPc' = "loop"
    /\ outVal' = <<>>
    /\ outBuf' = <<>>
    /\ UNCHANGED <<initialized, cancelled, released, procState, starts, listeners,
                   stdin, bashPos, lastStatus, stdoutPipe, stderrPipe,
                   errPc, errVal, closePc, closeCount, waited>>
    /\ UNCHANGED <<genVars, execVars, quoteVars>>

\* A variant of the wait without the cancellation case.
RunCtxDoneAbsent == FALSE /\ UNCHANGED vars

\* case <-b.ctx.Done()
RunCtxDone ==
    /\ runPc = "select"
    /\ cancelled
    /\ runReturn(<<>>, CanceledErr, runWrote)
    /\ UNCHANGED <<initialized, cancelled, released, procState, starts, listeners,
                   stdin, bashPos, lastStatus, stdoutPipe, stderrPipe,
                   outPc, outBuf, outVal, errPc, errVal,
                   closePc, closeCount, waited>>
    /\ UNCHANGED <<genVars, execVars, quoteVars>>

(***************************************************************************)
(* Bash.Close                                                              *)
(***************************************************************************)
\* Close() is called and runs b.once.Do(b.init).
CloseCall ==
    /\ closePc = "idle"
    /\ closeCount < MaxCloses
    /\ onceDo
    /\ closePc' = "cancel"
    /\ UNCHANGED <<cancelled, released, stdin, bashPos, lastStatus, stdoutPipe,
                   stderrPipe, outBuf, outVal, errVal,
                   runPc, runCmd, runAfter, runWrote, runCount, lastRun,
                   closeCount, waited>>
    /\ UNCHANGED <<genVars, execVars, quoteVars>>

\* b.cancel()
CloseCancel ==
    /\ closePc = "cancel"
    /\ cancelled' = TRUE
    /\ closePc' = "write"
    /\ UNCHANGED <<initialized, released, procState, starts, listeners,
                   stdin, bashPos, lastStatus, stdoutPipe, stderrPipe,
                   outPc, outBuf, outVal, errPc, errVal,
                   runPc, runCmd, runAfter, runWrote, runCount, lastRun, closeCount, waited>>
    /\ UNCHANGED <<genVars, execVars, quoteVars>>

\* A variant of the write below that sends the shell no exit command.
closeWriteNothing == UNCHANGED stdin

\* _, _ = b.stdin.Write([]byte("exit 0\n"))
closeWriteExit ==
    IF stdinWritable THEN stdin' = Append(stdin, Item("exit", "none")) ELSE UNCHANGED stdin

CloseWrite ==
    /\ closePc = "write"
    /\ closeWriteExit
    /\ closePc' = "wait"
    /\ UNCHANGED <<initialized, cancelled, released, procState, starts, listeners,
                   bashPos, lastStatus, stdoutPipe, stderrPipe,
                   outPc, outBuf, outVal, errPc, errVal,
                   runPc, runCmd, runAfter, runWrote, runCount, lastRun, closeCount, waited>>
    /\ UNCHANGED <<genVars, execVars, quoteVars>>

\* _ = b.cmd.Wait(): returns once the process has exited, and closes the
\* parent's pipe ends; a second Wait returns an error at once.
CloseWait ==
    /\ closePc = "wait"
    /\ waited \/ procState = "exited"
    /\ waited' = TRUE
    /\ closePc' = "release"
    /\ UNCHANGED <<initialized, cancelled, released, procState, starts, listeners,
                   stdin, bashPos, lastStatus, stdoutPipe, stderrPipe,
                   outPc, outBuf, outVal, errPc, errVal,
                   runPc, runCmd, runAfter, runWrote, runCount, lastRun, closeCount>>
    /\ UNCHANGED <<genVars, execVars, quoteVars>>

\* for _, r := range b.resources { _ = r.Close() }
CloseRelease ==
    /\ closePc = "release"
    /\ released' = TRUE
    /\ closeCount' = closeCount + 1
    /\ closePc' = "idle"
    /\ UNCHANGED <<initialized, cancelled, procState, starts, listeners,
                   stdin, bashPos, lastStatus, stdoutPipe, stderrPipe,
                   outPc, outBuf, outVal, errPc, errVal,
                   runPc, runCmd, runAfter, runWrote, runCount, lastRun, waited>>
    /\ UNCHANGED <<genVars, execVars, quoteVars>>

(***************************************************************************)
(* package generator.  A command block is opaque text: the model gives     *)
(* every block an identity (what it is, of which suite, which one), which  *)
(* stands for distinct Dir and Location values of distinct suites.         *)
(***************************************************************************)
MaxRenders == 2
MaxBlocks == 2

Suites == {"A", "B", "C", "S"}

Blk(op, s, i) == [op |-> op, suite |-> s, i |-> i]
NoBlock == Blk("none", "none", 0)

\* fmt.Sprintf("echo 'setup suite %s'", filepath.Dir(s.Location))
setupMarker(s) == Blk("echo setup suite", s, 0)
\* fmt.Sprintf("echo 'cleanup suite %s'", filepath.Dir(s.Location))
cleanupMarker(s) == Blk("echo cleanup suite", s, 0)
\* "cd " + absDir
cdDir(s) == Blk("cd", s, 0)

\* The trees the model builds: the chain A <- B <- C <- S, and S with the
\* two parents B and C, both children of A.
Trees ==
    { [A |-> <<>>, B |-> <<"A">>, C |-> <<"B">>, S |-> <<"C">>],
      [A |-> <<>>, B |-> <<"A">>, C |-> <<"A">>, S |-> <<"B", "C">>] }

\* A body of n blocks of suite s.
BodyOf(op, s, n) == [i \in 1..n |-> Blk(op, s, i)]

(***************************************************************************)
(* Body.BashString: the lines of a function body.  A line is a command     *)
(* block (plain, or the argument of try_run), the guard                    *)
(* "[ $? = 0 ] || exit 1", or ":" for an empty body.                       *)
(***************************************************************************)
Line(kind, block) == [kind |-> kind, block |-> block]

\* A variant that never writes the guard.
blockLinesNoGuard(block, withExit, retry) ==
    <<Line(IF retry THEN "try_run" ELSE "plain", block)>>

blockLines(block, withExit, retry) ==
    <<Line(IF retry THEN "try_run" ELSE "plain", block)>>
        \o (IF withExit THEN <<Line("guard", NoBlock)>> ELSE <<>>)

BodyBashString(b, withExit, retry) ==
    IF Len(b) = 0
    THEN <<Line("noop", NoBlock)>>
    ELSE Flatten([i \in 1..Len(b) |-> blockLines(b[i], withExit, retry)])

(***************************************************************************)
(* The text of a try_run line.  Body.BashString writes a tab, "try_run '",  *)
(* the block with every single quote replaced by '\'', a closing quote and *)
(* a newline.  bash reads the line back into words: outside quotes a blank *)
(* ends a word, a backslash makes the next character literal and a quote   *)
(* opens a quoted stretch; inside single quotes every character up to the  *)
(* next single quote is literal.                                           *)
(***************************************************************************)
MaxBlockLen == 3

SQ == "'"
BS == "\\"
TAB == "\t"

BlockChars == {"a", SQ, " ", "\n", BS}

BlockTexts == UNION {[1..n -> BlockChars] : n \in 0..MaxBlockLen}

tryRunText == <<"t", "r", "y", "_", "r", "u", "n">>

\* A variant that escapes a single quote with a backslash alone.
escapedQuoteBackslash == <<BS, SQ>>

\* "'\\''" of strings.ReplaceAll: close the quote, an escaped quote, reopen.
escapedQuote == <<SQ, BS, SQ, SQ>>

\* strings.ReplaceAll(block, "'", "'\\''")
ReplaceAllQuotes(block) ==
    Flatten([i \in 1..Len(block) |-> IF block[i] = SQ THEN escapedQuote ELSE <<block[i]>>])

\* The line Body.BashString writes for a block when retry is set.
tryRunLine(block) ==
    <<TAB>> \o tryRunText \o <<" ", SQ>> \o ReplaceAllQuotes(block) \o <<SQ>> \o NL

\* Body.BashString writes the line of the block.
WriteTryRunLine ==
    /\ qMode = "none"
    /\ qLine' = tryRunLine(qBlock)
    /\ qMode' = "blank"
    /\ qPos' = 0
    /\ UNCHANGED <<qBlock, qWords>>
    /\ UNCHANGED <<shellVars, genVars, execVars>>

\* The word being read, with one more character.
wordPlus(c) == [qWords EXCEPT ![Len(qWords)] = Append(@, c)]

\* bash reads the next character of the line (two after a backslash
\* outside quotes).
ShellReadChar ==
    /\ qMode \in {"blank", "word", "quoted"}
    /\ qPos < Len(qLine)
    /\ LET c == qLine[qPos + 1]
       IN  CASE qMode = "quoted" ->
                   /\ qPos' = qPos + 1
                   /\ IF c = SQ
                      THEN qMode' = "word" /\ UNCHANGED qWords
                      ELSE qMode' = "quoted" /\ qWords' = wordPlus(c)
             [] qMode # "quoted" /\ c = "\n" ->
                   /\ qPos' = qPos + 1
                   /\ qMode' = "done"
                   /\ UNCHANGED qWords
             [] qMode # "quoted" /\ c \in {" ", TAB} ->
                   /\ qPos' = qPos + 1
                   /\ qMode' = "blank"
                   /\ UNCHANGED qWords
             [] qMode # "quoted" /\ c = SQ ->
                   /\ qPos' = qPos + 1
                   /\ qMode' = "quoted"
                   /\ qWords' = IF qMode = "blank" THEN Append(qWords, <<>>) ELSE qWords
             [] qMode # "quoted" /\ c = BS ->
                   /\ qPos + 2 <= Len(qLine)
                   /\ qPos' = qPos + 2
                   /\ IF qLine[qPos + 2] = "\n"
                      THEN UNCHANGED <<qMode, qWords>>
                      ELSE /\ qMode' = "word"
                           /\ qWords' = IF qMode = "blank"
                                        THEN Append(qWords, <<qLine[qPos + 2]>>)
                                        ELSE wordPlus(qLine[qPos + 2])
             [] OTHER ->
                   /\ qPos' = qPos + 1
                   /\ qMode' = "word"
                   /\ qWords' = IF qMode = "blank" THEN Append(qWords, <<c>>)
                                                   ELSE wordPlus(c)
    /\ UNCHANGED <<qBlock, qLine>>
    /\ UNCHANGED <<shellVars, genVars, execVars>>

(***************************************************************************)
(* Suite.getDependenciesSetup and Suite.getDependenciesCleanup             *)
(***************************************************************************)
RECURSIVE getDependenciesSetup(_)

\* A variant that emits a suite's own marker, cd and Run before its parents'.
getDependenciesSetupOwnFirst(s) ==
    <<setupMarker(s), cdDir(s)>>
        \o run[s]
        \o Flatten([i \in 1..Len(parents[s]) |-> getDependenciesSetup(parents[s][i])])

\* A variant that leaves the parents out: a suite contributes itself alone.
getDependenciesSetupOwnOnly(s) == <<setupMarker(s), cdDir(s)>> \o run[s]

getDependenciesSetup(s) ==
    Flatten([i \in 1..Len(parents[s]) |-> getDependenciesSetup(parents[s][i])])
        \o <<setupMarker(s), cdDir(s)>>
        \o run[s]

\* A variant that expands the parents by cleanup, symmetrically with setup.
RECURSIVE getDependenciesCleanupSymmetric(_)
getDependenciesCleanupSymmetric(s) ==
    <<cleanupMarker(s), cdDir(s)>>
        \o cleanup[s]
        \o Flatten([i \in 1..Len(parents[s]) |->
                       getDependenciesCleanupSymmetric(parents[s][i])])

getDependenciesCleanup(s) ==
    <<cleanupMarker(s), cdDir(s)>>
        \o cleanup[s]
        \o Flatten([i \in 1..Len(parents[s]) |-> getDependenciesSetup(parents[s][i])])

(***************************************************************************)
(* Suite.BashString: computes the dependencies' sequences, prefixes the    *)
(* suite's own Run and Cleanup in place, and renders the four functions.   *)
(***************************************************************************)
prefixedRun(s) == <<setupMarker(s), cdDir(s)>> \o run[s]
prefixedCleanup(s) == <<cleanupMarker(s), cdDir(s)>> \o cleanup[s]

\* A variant that renders the cleanup bodies the way the setup bodies are.
renderScriptCleanupAsSetup(s, retry) ==
    LET setupDependencies ==
            Flatten([i \in 1..Len(parents[s]) |-> getDependenciesSetup(parents[s][i])])
        cleanupDependencies ==
            Flatten([i \in 1..Len(parents[s]) |-> getDependenciesCleanup(parents[s][i])])
    IN  [ retry |-> retry,
          setup_dependencies |-> BodyBashString(setupDependencies, TRUE, retry),
          setup_main |-> BodyBashString(prefixedRun(s), TRUE, retry),
          cleanup_dependencies |-> BodyBashString(cleanupDependencies, TRUE, retry),
          cleanup_main |-> BodyBashString(prefixedCleanup(s), TRUE, retry) ]

renderScript(s, retry) ==
    LET setupDependencies ==
            Flatten([i \in 1..Len(parents[s]) |-> getDependenciesSetup(parents[s][i])])
        cleanupDependencies ==
            Flatten([i \in 1..Len(parents[s]) |-> getDependenciesCleanup(parents[s][i])])
    IN  [ retry |-> retry,
          setup_dependencies |-> BodyBashString(setupDependencies, TRUE, retry),
          setup_main |-> BodyBashString(prefixedRun(s), TRUE, retry),
          cleanup_dependencies |-> BodyBashString(cleanupDependencies, FALSE, FALSE),
          cleanup_main |-> BodyBashString(prefixedCleanup(s), FALSE, FALSE) ]

NoScript ==
    [ retry |-> FALSE, setup_dependencies |-> <<>>, setup_main |-> <<>>,
      cleanup_dependencies |-> <<>>, cleanup_main |-> <<>> ]

NoTarget == [suite |-> "none", retry |-> FALSE, ownRun |-> <<>>, ownCleanup |-> <<>>]

\* No script is being executed.
execIdle ==
    /\ entry' = "none"
    /\ execFn' = "none"
    /\ execIdx' = 0
    /\ execStatus' = 0
    /\ exitCode' = -1
    /\ executed' = <<>>
    /\ failed' = FALSE
    /\ inTryRun' = FALSE
    /\ attempt' = 0
    /\ elapsed' = 0

\* The calls of one generator run pass the same retry flag.
BashString(s, retry) ==
    /\ renders < MaxRenders
    /\ renders = 0 \/ retry = target.retry
    /\ script' = renderScript(s, retry)
    /\ run' = [run EXCEPT ![s] = prefixedRun(s)]
    /\ cleanup' = [cleanup EXCEPT ![s] = prefixedCleanup(s)]
    /\ target' = [suite |-> s, retry |-> retry, ownRun |-> run[s], ownCleanup |-> cleanup[s]]
    /\ prevTarget' = target
    /\ prevScript' = script
    /\ renders' = renders + 1
    /\ execIdle
    /\ UNCHANGED parents
    /\ UNCHANGED <<shellVars, quoteVars>>

(***************************************************************************)
(* bash executing the emitted script (bashSuiteTemplate, retryTemplate).   *)
(* A command block ends with status 0 or 1, of the environment's choosing. *)
(***************************************************************************)
\* RETRY_TIMEOUT_SECONDS of the run (300 when unset).
RetryTimeout == 2

FunctionNames == {"setup_dependencies", "setup_main", "cleanup_main", "cleanup_dependencies"}

atLine == execFn \in FunctionNames /\ execIdx < Len(script[execFn])
curLine == script[execFn][execIdx + 1]

\* The script is run as "script setup" or "script cleanup": "$1".
ExecStart(e) ==
    /\ renders >= 1
    /\ entry = "none"
    /\ entry' = e
    /\ execFn' = IF e = "setup" THEN "setup_dependencies" ELSE "cleanup_main"
    /\ execIdx' = 0
    /\ execStatus' = 0
    /\ exitCode' = -1
    /\ executed' = <<>>
    /\ failed' = FALSE
    /\ inTryRun' = FALSE
    /\ attempt' = 0
    /\ elapsed' = 0
    /\ UNCHANGED <<shellVars, genVars, quoteVars>>

\* A command block written as a line of its own.
ExecPlain ==
    /\ atLine
    /\ curLine.kind = "plain"
    /\ \E status \in {0, 1} :
          /\ execStatus' = status
          /\ failed' = (failed \/ status # 0)
    /\ executed' = Append(executed, curLine.block)
    /\ execIdx' = execIdx + 1
    /\ UNCHANGED <<entry, execFn, exitCode, inTryRun, attempt, elapsed>>
    /\ UNCHANGED <<shellVars, genVars, quoteVars>>

\* ":" (the body of a function without commands)
ExecNoop ==
    /\ atLine
    /\ curLine.kind = "noop"
    /\ execStatus' = 0
    /\ execIdx' = execIdx + 1
    /\ UNCHANGED <<entry, execFn, exitCode, executed, failed, inTryRun, attempt, elapsed>>
    /\ UNCHANGED <<shellVars, genVars, quoteVars>>

\* [ $? = 0 ] || exit 1
ExecGuard ==
    /\ atLine
    /\ curLine.kind = "guard"
    /\ IF execStatus = 0
       THEN /\ execIdx' = execIdx + 1
            /\ UNCHANGED <<execFn, exitCode>>
       ELSE /\ exitCode' = 1
            /\ execFn' = "done"
            /\ UNCHANGED execIdx
    /\ UNCHANGED <<entry, execStatus, executed, failed, inTryRun, attempt, elapsed>>
    /\ UNCHANGED <<shellVars, genVars, quoteVars>>

\* Seconds are counted up to just past the timeout: beyond it they compare alike.
clock(t) == Min(t, RetryTimeout + 1)

\* A variant that gives up at the first failed attempt.
timedOutAtOnce(now) == TRUE

\* [ "$elapsed" -gt "$timeout" ]
timedOut(now) == now > RetryTimeout

\* try_run '<block>': one pass of the loop of retryTemplate.  The attempt
\* takes dur seconds; a failed attempt within the timeout sleeps 1 second.
ExecTryRun ==
    /\ atLine
    /\ curLine.kind = "try_run"
    /\ \E retval \in {0, 1}, dur \in {0, 1} :
          LET start == IF inTryRun THEN elapsed ELSE 0
              now == clock(start + dur)
          IN
          /\ attempt' = (IF inTryRun THEN attempt ELSE 0) + 1
          /\ executed' = IF inTryRun THEN executed ELSE Append(executed, curLine.block)
          /\ IF retval = 0
             THEN /\ execStatus' = 0
                  /\ execIdx' = execIdx + 1
                  /\ inTryRun' = FALSE
                  /\ elapsed' = now
                  /\ UNCHANGED failed
             ELSE IF timedOut(now)
             THEN /\ execStatus' = 1
                  /\ execIdx' = execIdx + 1
                  /\ inTryRun' = FALSE
                  /\ elapsed' = now
                  /\ failed' = TRUE
             ELSE /\ inTryRun' = TRUE
                  /\ elapsed' = clock(now + 1)
                  /\ UNCHANGED <<execStatus, execIdx, failed>>
    /\ UNCHANGED <<entry, execFn, exitCode>>
    /\ UNCHANGED <<shellVars, genVars, quoteVars>>

\* A variant without the closing "true": the function returns the status of
\* its last command.
cleanupStatusOfLast(st) == st

\* "# cleanup shouldn't report errors / true": the status a cleanup function
\* returns when its last command ended with status st.
cleanupStatus(st) == 0

\* The end of a function body: the "true" that ends the cleanup functions,
\* "setup_dependencies && setup_main", "cleanup_main; cleanup_dependencies",
\* and the script's exit with the status of "$1".
ExecReturn ==
    /\ execFn \in FunctionNames
    /\ execIdx = Len(script[execFn])
    /\ CASE execFn = "setup_dependencies" ->
               IF execStatus = 0
               THEN /\ execFn' = "setup_main"
                    /\ execIdx' = 0
                    /\ UNCHANGED <<execStatus, exitCode>>
               ELSE /\ execFn' = "done"
                    /\ exitCode' = execStatus
                    /\ UNCHANGED <<execStatus, execIdx>>
          [] execFn = "setup_main" ->
               /\ execFn' = "done"
               /\ exitCode' = execStatus
               /\ UNCHANGED <<execStatus, execIdx>>
          [] execFn = "cleanup_main" ->
               /\ execFn' = "cleanup_dependencies"
               /\ execIdx' = 0
               /\ execStatus' = cleanupStatus(execStatus)
               /\ UNCHANGED exitCode
          [] execFn = "cleanup_dependencies" ->
               /\ execFn' = "done"
               /\ execStatus' = cleanupStatus(execStatus)
               /\ exitCode' = cleanupStatus(execStatus)
               /\ UNCHANGED execIdx
    /\ UNCHANGED <<entry, executed, failed, inTryRun, attempt, elapsed>>
    /\ UNCHANGED <<shellVars, genVars, quoteVars>>

(***************************************************************************)
(* The session: a caller of Run, a caller of Close, the two listeners and  *)
(* the bash process.                                                       *)
(***************************************************************************)
ShellInit ==
    /\ initialized = FALSE
    /\ cancelled = FALSE
    /\ released = FALSE
    /\ procState = "none"
    /\ starts = 0
    /\ listeners = 0
    /\ stdin = <<>>
    /\ bashPos = 0
    /\ lastStatus = 0
    /\ stdoutPipe = <<>>
    /\ stderrPipe = <<>>
    /\ outPc = "none"
    /\ outBuf = <<>>
    /\ outVal = <<>>
    /\ errPc = "none"
    /\ errVal = <<>>
    /\ runPc = "idle"
    /\ runCmd = "none"
    /\ runAfter = FALSE
    /\ runWrote = 0
    /\ runCount = 0
    /\ lastRun = NoRun
    /\ closePc = "idle"
    /\ closeCount = 0
    /\ waited = FALSE

\* No suite tree and no script.
GenNone ==
    /\ parents = [s \in Suites |-> <<>>]
    /\ run = [s \in Suites |-> <<>>]
    /\ cleanup = [s \in Suites |-> <<>>]
    /\ renders = 0
    /\ target = NoTarget
    /\ script = NoScript
    /\ prevTarget = NoTarget
    /\ prevScript = NoScript

ExecNone ==
    /\ entry = "none"
    /\ execFn = "none"
    /\ execIdx = 0
    /\ execStatus = 0
    /\ exitCode = -1
    /\ executed = <<>>
    /\ failed = FALSE
    /\ inTryRun = FALSE
    /\ attempt = 0
    /\ elapsed = 0

\* No try_run line is being written or read.
QuoteNone ==
    /\ qBlock = <<>>
    /\ qLine = <<>>
    /\ qPos = 0
    /\ qMode = "none"
    /\ qWords = <<>>

Init == ShellInit /\ GenNone /\ ExecNone /\ QuoteNone

Next ==
    \/ \E c \in CmdNames : RunCall(c)
    \/ RunCtx
    \/ RunWriteCommand
    \/ RunWriteProbe
    \/ RunRecvStderr
    \/ RunRecvFailed
    \/ RunRecvOutput
    \/ RunCtxDone
    \/ CloseCall
    \/ CloseCancel
    \/ CloseWrite
    \/ CloseWait
    \/ CloseRelease
    \/ bashStep
    \/ stderrLoop
    \/ stderrRead
    \/ stdoutLoop
    \/ stdoutRead

Spec == Init /\ [][Next]_vars

\* The select of Run: the caller proceeds with a case that is ready.
RunSelect == RunRecvStderr \/ RunRecvFailed \/ RunRecvOutput \/ RunCtxDone

\* The session with a caller of Run that is scheduled: a goroutine whose
\* select has a ready case is eventually run by the Go scheduler.
LiveSpec == Init /\ [][Next]_vars /\ WF_vars(RunSelect)

\* The steps of each goroutine and of the bash process, apart from the calls
\* themselves (whether Run or Close is called is the caller's choice).
StdoutListener == stdoutLoop \/ stdoutRead
StderrListener == stderrLoop \/ stderrRead
RunBody == RunCtx \/ RunWriteCommand \/ RunWriteProbe \/ RunSelect
CloseBody == CloseCancel \/ CloseWrite \/ CloseWait \/ CloseRelease

\* The session with every goroutine and the process scheduled: whichever of
\* them can take its next step eventually takes it.
FairSpec ==
    /\ Init
    /\ [][Next]_vars
    /\ WF_vars(StdoutListener)
    /\ WF_vars(StderrListener)
    /\ WF_vars(bashStep)
    /\ WF_vars(RunBody)
    /\ WF_vars(CloseBody)

(***************************************************************************)
(* The generator: a suite tree as its builder hands it over, rendered by   *)
(* calls of BashString; the last script emitted is run by bash.            *)
(***************************************************************************)
GenInit ==
    /\ parents \in Trees
    /\ \E n \in 0..MaxBlocks :
          /\ run = [s \in Suites |-> IF s = "S" THEN BodyOf("run", s, n)
                                                 ELSE BodyOf("run", s, 1)]
          /\ cleanup = [s \in Suites |-> IF s = "S" THEN BodyOf("cleanup", s, n)
                                                     ELSE BodyOf("cleanup", s, 1)]
    /\ renders = 0
    /\ target = NoTarget
    /\ script = NoScript
    /\ prevTarget = NoTarget
    /\ prevScript = NoScript
    /\ ExecNone
    /\ ShellInit
    /\ QuoteNone

GenNext ==
    \/ \E s \in Suites, retry \in BOOLEAN : BashString(s, retry)
    \/ \E e \in {"setup", "cleanup"} : ExecStart(e)
    \/ ExecPlain
    \/ ExecNoop
    \/ ExecGuard
    \/ ExecTryRun
    \/ ExecReturn

GenSpec == GenInit /\ [][GenNext]_vars

(***************************************************************************)
(* The quoting of the retry wrapper's argument: Body.BashString writes the *)
(* try_run line of a block, and bash reads the line back.                  *)
(***************************************************************************)
QuoteInit ==
    /\ ShellInit
    /\ GenNone
    /\ ExecNone
    /\ qBlock \in BlockTexts
    /\ qLine = <<>>
    /\ qPos = 0
    /\ qMode = "none"
    /\ qWords = <<>>

QuoteNext ==
    \/ WriteTryRunLine
    \/ ShellReadChar

QuoteSpec == QuoteInit /\ [][QuoteNext]_vars

(***************************************************************************)
(* Claims about package shell, checked under Spec.                         *)
(***************************************************************************)
\* No Close has been called: the session is only used through Run.
NoClose == closePc = "idle" /\ closeCount = 0 /\ ~cancelled

\* The command exits 0, writes nothing to stderr, and its output with the
\* sentinel fits the buffer.
Succeeds(c) ==
    /\ c \in CmdNames
    /\ Commands[c].status = 0
    /\ StderrOf(c) = <<>>
    /\ Len(StdoutOf(c)) + Len(OKText \o NL) < bufferSize

\* The command exits nonzero and writes nothing to stderr.
FailsQuietly(c) ==
    /\ c \in CmdNames
    /\ Commands[c].status # 0
    /\ StderrOf(c) = <<>>

\* C1: the Run of a command that exits 0 and writes nothing to stderr
\* returns the command's own stdout text (trimmed, sentinel removed) and a
\* nil error.  Stated for the first Run of a session, so that nothing an
\* earlier command left behind is involved.
C1_RunReturnsOwnOutput ==
    (runCount = 1 /\ NoClose /\ Succeeds(lastRun.cmd))
        => /\ lastRun.out = TrimSpace(StdoutOf(lastRun.cmd))
           /\ lastRun.err = NilErr

\* C2: the Run of a command that exits nonzero and writes nothing to
\* stderr returns a non-nil error and empty output, whatever it wrote to
\* stdout.  Stated for the first Run of a session.
C2_FailureReturnsError ==
    (runCount = 1 /\ NoClose /\ FailsQuietly(lastRun.cmd))
        => /\ lastRun.err # NilErr
           /\ lastRun.out = <<>>

\* C3: a Run during which the command writes a chunk to stderr returns an
\* error whose text is exactly that chunk, whatever the exit status and
\* whatever the stdout listener has ready.  Stated for the first Run.
C3_StderrChunkIsTheError ==
    (runCount = 1 /\ NoClose /\ lastRun.cmd \in CmdNames /\ StderrOf(lastRun.cmd) # <<>>)
        => /\ lastRun.err = StderrErr(StderrOf(lastRun.cmd))
           /\ lastRun.out = <<>>

\* The command's own output does not end with the text OK (the case of C1).
OutputNotOK(c) == ~HasSuffix(TrimSpace(StdoutOf(c)), OKText)

\* A Run returns in this step.
RunReturns == runCount' = runCount + 1

\* C4: a command failure is not session-fatal and responses stay
\* correlated: when a Run has returned a command-failure error, the next Run
\* of a command that exits 0 and writes nothing to stderr returns that
\* command's own output and a nil error, not what the earlier command left.
C4_NextRunAfterFailure ==
    (/\ RunReturns
     /\ runCount >= 1
     /\ lastRun.err.kind \in {"failed", "stderr"}
     /\ NoClose'
     /\ Succeeds(lastRun'.cmd)
     /\ OutputNotOK(lastRun'.cmd))
        => /\ lastRun'.out = TrimSpace(StdoutOf(lastRun'.cmd))
           /\ lastRun'.err = NilErr

C4_ResponsesCorrelated == [][C4_NextRunAfterFailure]_vars

\* C5: a Run called after Close (once Close has cancelled the session's
\* context, whether or not it has returned yet) gets the cancellation error
\* and empty output and writes nothing to the shell's stdin, at any point
\* of the call.
C5_RunAfterCloseIsCancelled ==
    /\ runAfter => (runPc = "ctx" /\ runWrote = 0)
    /\ (runCount >= 1 /\ lastRun.afterClose)
          => /\ lastRun.err = CanceledErr
             /\ lastRun.out = <<>>
             /\ lastRun.wrote = 0

C5_Witness == runCount >= 1 /\ lastRun.afterClose /\ lastRun.cmd = "echo_a"

\* A step of the caller of Close.
CloseStep == closePc' # closePc

\* C6: Close neither receives from nor sends on the result channels (a
\* listener blocked in a send stays blocked, the caller of Run is not
\* moved), it is never stuck (while it waits for the process, the process
\* still has its exit command to run), and a Close after the first one
\* changes nothing of the session.
C6_CloseNeverBlocked ==
    (closePc = "wait" /\ ~waited /\ procState # "exited")
        => (procState = "running" /\ \E i \in 1..Len(stdin) : stdin[i].k = "exit")

C6_CloseFrame ==
    CloseStep =>
        /\ outPc \in {"sendOut", "sendErr"} => outPc' = outPc
        /\ errPc = "send" => errPc' = errPc
        /\ UNCHANGED <<runPc, runCount, lastRun, outVal, errVal>>
        /\ closeCount >= 1 =>
              UNCHANGED <<initialized, cancelled, released, procState, waited,
                          stdin, starts, listeners, stdoutPipe, stderrPipe>>

IsBlockLine(l) == l.kind \in {"plain", "try_run"}

\* The command blocks of a rendered function body, in order.
Blocks(lines) ==
    LET sel == SelectSeq(lines, IsBlockLine)
    IN  [i \in 1..Len(sel) |-> sel[i].block]

IsPrefix(p, q) == Len(p) <= Len(q) /\ SubSeq(q, 1, Len(p)) = p

\* u occurs in seq at position i.
OccursAt(seq, u, i) ==
    /\ i >= 1
    /\ i + Len(u) - 1 <= Len(seq)
    /\ SubSeq(seq, i, i + Len(u) - 1) = u

\* The Run body a suite had when the last BashString call began.
RunBefore(x) == IF x = target.suite THEN target.ownRun ELSE run[x]

\* A suite's setup marker, cd and Run body.
SetupUnit(x) == <<setupMarker(x), cdDir(x)>> \o RunBefore(x)

\* The setup sequence of the last script: setup_dependencies, then setup_main.
EmittedSetup == Blocks(script.setup_dependencies) \o Blocks(script.setup_main)

\* The rendered suite is S of the claim: its parent is b, whose parent is the root a.
IsChain(a, b) ==
    /\ parents[target.suite] = <<b>>
    /\ parents[b] = <<a>>
    /\ parents[a] = <<>>

\* C7: setup linearization respects ancestor order.  For the chain a, b
\* above the rendered suite the emitted setup sequence is a's marker, cd
\* and Run, then b's, then the suite's own marker, cd and commands; in every
\* tree each occurrence of a suite's marker, cd and Run is preceded by those
\* of each of its parents, and consecutive parents come in Parents order.
C7_SetupRespectsAncestorOrder ==
    (renders >= 1 /\ entry = "none") =>
        /\ Blocks(script.setup_main) = SetupUnit(target.suite)
        /\ \A a, b \in Suites :
              IsChain(a, b) =>
                  EmittedSetup = SetupUnit(a) \o SetupUnit(b) \o SetupUnit(target.suite)
        /\ \A d \in Suites : \A i \in 1..Len(EmittedSetup) :
              OccursAt(EmittedSetup, SetupUnit(d), i) =>
                  /\ \A k \in 1..Len(parents[d]) :
                        \E j \in 1..i :
                            /\ OccursAt(EmittedSetup, SetupUnit(parents[d][k]), j)
                            /\ j + Len(SetupUnit(parents[d][k])) <= i
                  /\ \A k \in 1..(Len(parents[d]) - 1) :
                        \E j1, j2 \in 1..i :
                            /\ OccursAt(EmittedSetup, SetupUnit(parents[d][k]), j1)
                            /\ OccursAt(EmittedSetup, SetupUnit(parents[d][k + 1]), j2)
                            /\ j1 + Len(SetupUnit(parents[d][k])) <= j2

\* A suite under a chain of two ancestors has been rendered with commands
\* of its own, and so has the suite with two parents.
C7_Witness ==
    /\ renders >= 1
    /\ entry = "none"
    /\ target.ownRun # <<>>
    /\ \E a, b \in Suites : IsChain(a, b)
    /\ Len(EmittedSetup) >= 9

\* The setup expansion of a suite whose parents are roots: the parents'
\* markers, cds and Run bodies, then its own.
SetupExpansion(q) ==
    Flatten([i \in 1..Len(parents[q]) |-> SetupUnit(parents[q][i])]) \o SetupUnit(q)

\* The Cleanup body a suite had when the last BashString call began.
CleanupBefore(x) == IF x = target.suite THEN target.ownCleanup ELSE cleanup[x]

\* The cleanup contribution of a parent p of the rendered suite.
CleanupContribution(p) ==
    <<cleanupMarker(p), cdDir(p)>>
        \o CleanupBefore(p)
        \o Flatten([i \in 1..Len(parents[p]) |-> SetupExpansion(parents[p][i])])

EmittedCleanup == Blocks(script.cleanup_main) \o Blocks(script.cleanup_dependencies)

\* C8: cleanup linearization.  The suite's own contribution (cleanup_main)
\* is its cleanup marker, the cd and its Cleanup body; cleanup_dependencies
\* holds, per parent in Parents order, that parent's cleanup marker, cd and
\* Cleanup body followed by the setup expansion (not a cleanup expansion) of
\* each of the parent's parents; bash runs cleanup_main, then
\* cleanup_dependencies.
C8_CleanupLinearization ==
    renders >= 1 =>
        /\ entry = "none" =>
              /\ Blocks(script.cleanup_main)
                    = <<cleanupMarker(target.suite), cdDir(target.suite)>>
                          \o target.ownCleanup
              /\ Blocks(script.cleanup_dependencies)
                    = Flatten([i \in 1..Len(parents[target.suite]) |->
                                  CleanupContribution(parents[target.suite][i])])
        /\ entry = "cleanup" => IsPrefix(executed, EmittedCleanup)
        /\ (entry = "cleanup" /\ execFn = "cleanup_dependencies")
              => IsPrefix(Blocks(script.cleanup_main), executed)
        /\ (entry = "cleanup" /\ execFn = "done") => executed = EmittedCleanup

\* bash has run the cleanup of a suite whose parent has parents of its own:
\* the grandparent contributed its setup marker and no cleanup marker.
C8_Witness ==
    /\ renders >= 1
    /\ entry = "cleanup"
    /\ execFn = "done"
    /\ \E p, q \in Suites :
          /\ parents[target.suite] = <<p>>
          /\ parents[p] = <<q>>
          /\ parents[q] # <<>>
          /\ \E i \in 1..Len(executed) : executed[i] = setupMarker(q)
          /\ \A i \in 1..Len(executed) : executed[i] # cleanupMarker(q)

\* C9: two BashString calls in a row on the same suite with the same retry
\* flag return the same script.
C9_RenderTwiceSame ==
    (renders >= 2 /\ target.suite = prevTarget.suite /\ target.retry = prevTarget.retry)
        => script = prevScript

\* bash runs the setup entry point of a script emitted without retry.
NonRetrySetup == entry = "setup" /\ ~script.retry

C10_State ==
    NonRetrySetup =>
        /\ IsPrefix(executed, EmittedSetup)
        /\ failed => exitCode \in {-1, 1}
        /\ (failed /\ exitCode = -1) =>
              (atLine /\ curLine.kind = "guard" /\ execStatus # 0)
        /\ execFn = "done" => exitCode = (IF failed THEN 1 ELSE 0)
        /\ exitCode = 0 => executed = EmittedSetup

C10_Step ==
    (NonRetrySetup /\ NonRetrySetup') =>
        /\ Len(executed') > Len(executed) => ~failed
        /\ execFn' # execFn => (execFn' = "setup_main" => ~failed)
        /\ (failed /\ exitCode = -1) => exitCode' = 1

\* C10: without retry, setup aborts on the first failure.  Once a setup
\* block has failed the next thing the script does is exit 1: no later
\* block is executed and setup_main is not entered; when no block fails the
\* script runs every block of setup_dependencies and setup_main in order
\* and exits 0.
C10_SetupAbortsOnFirstFailure == [](C10_State) /\ [][C10_Step]_vars

\* A block of setup_dependencies failed and the script exited 1 with
\* blocks left unexecuted.
C10_Witness ==
    /\ NonRetrySetup
    /\ failed
    /\ exitCode = 1
    /\ executed # <<>>
    /\ Len(executed) < Len(Blocks(script.setup_dependencies))

\* bash runs the setup entry point of a script emitted with retry.
RetrySetup == entry = "setup" /\ script.retry

C11_State ==
    RetrySetup =>
        /\ IsPrefix(executed, EmittedSetup)
        /\ \A i \in 1..Len(script.setup_dependencies) :
              script.setup_dependencies[i].kind # "plain"
        /\ \A i \in 1..Len(script.setup_main) : script.setup_main[i].kind # "plain"
        /\ inTryRun => (attempt >= 1 /\ ~failed /\ atLine /\ curLine.kind = "try_run")
        /\ failed => (elapsed > RetryTimeout /\ exitCode \in {-1, 1})
        /\ (failed /\ exitCode = -1) =>
              (atLine /\ curLine.kind = "guard" /\ execStatus # 0)
        /\ execFn = "done" => exitCode = (IF failed THEN 1 ELSE 0)
        /\ exitCode = 0 => executed = EmittedSetup

C11_Step ==
    (RetrySetup /\ RetrySetup') =>
        /\ Len(executed') > Len(executed) => (~failed /\ ~inTryRun /\ attempt' = 1)
        /\ (inTryRun /\ attempt' # attempt) => attempt' = attempt + 1
        /\ (inTryRun /\ ~inTryRun') =>
              /\ attempt' = attempt + 1
              /\ execStatus' = 0 => (~failed' /\ execIdx' = execIdx + 1)
              /\ execStatus' # 0 => (failed' /\ elapsed' > RetryTimeout)
        /\ (inTryRun /\ inTryRun') => (execIdx' = execIdx /\ executed' = executed)
        /\ (failed /\ exitCode = -1) => exitCode' = 1

\* C11: with retry, every setup block runs through try_run.  The wrapper
\* runs the block again after each failed attempt that observes an elapsed
\* time within the timeout, so a block that succeeds after k failed attempts
\* has been executed k + 1 times and setup goes on; the wrapper reports
\* failure only after a failed attempt that observes an elapsed time above
\* the timeout, and then the script exits 1 without executing a later block.
C11_RetryUntilSuccessOrTimeout == [](C11_State) /\ [][C11_Step]_vars

\* The last block failed twice and succeeded at the third attempt, and setup
\* exited 0.
C11_Witness ==
    /\ RetrySetup
    /\ attempt = 3
    /\ ~failed
    /\ execFn = "done"
    /\ exitCode = 0
    /\ Len(executed) >= 3

\* A block failed at every attempt until the timeout had passed, and the
\* script exited 1 with blocks left unexecuted.
C11_WitnessTimeout ==
    /\ RetrySetup
    /\ failed
    /\ attempt >= 2
    /\ exitCode = 1
    /\ Len(executed) < Len(EmittedSetup)

\* bash runs the cleanup entry point of the script.
CleanupRun == entry = "cleanup"

C12_State ==
    CleanupRun =>
        /\ IsPrefix(executed, EmittedCleanup)
        /\ exitCode \in {-1, 0}
        /\ execFn \in FunctionNames =>
              \/ atLine /\ curLine.kind \in {"plain", "noop"}
              \/ execIdx = Len(script[execFn])
        /\ execFn = "cleanup_main" =>
              executed = SubSeq(Blocks(script.cleanup_main), 1, Len(executed))
        /\ execFn = "done" => (exitCode = 0 /\ executed = EmittedCleanup)

C12_Step ==
    (CleanupRun /\ CleanupRun') =>
        /\ execFn' # execFn =>
              /\ execIdx = Len(script[execFn])
              /\ execFn = "cleanup_main" => execFn' = "cleanup_dependencies"
              /\ execFn = "cleanup_dependencies" => execFn' = "done"
        /\ exitCode' # exitCode => exitCode' = 0

\* C12: cleanup is best-effort and always reports success.  Whatever blocks
\* fail, the cleanup entry point executes every block of cleanup_main and
\* then every block of cleanup_dependencies in order, leaves a function only
\* at its end, and the script exits 0.
C12_CleanupAlwaysSucceeds == [](C12_State) /\ [][C12_Step]_vars

\* Cleanup has finished with exit 0 although its last block, and so at
\* least one block, failed.
C12_Witness ==
    /\ CleanupRun
    /\ execFn = "done"
    /\ failed
    /\ exitCode = 0
    /\ Len(Blocks(script.cleanup_dependencies)) >= 3
    /\ Len(executed) = Len(EmittedCleanup)

\* The lines of the two cleanup functions of the last script.
CleanupLines == script.cleanup_main \o script.cleanup_dependencies

\* C13: in every rendered script, with and without retry, each line of
\* cleanup_main and cleanup_dependencies is a command block on its own line
\* (or ":"): none is an exit-1 guard and none is wrapped in try_run, the
\* ancestors' Run blocks that the cleanup linearization pulls in included.
C13_CleanupNeverGuarded ==
    renders >= 1 =>
        \A i \in 1..Len(CleanupLines) : CleanupLines[i].kind \in {"plain", "noop"}

\* A script rendered with retry whose cleanup_dependencies holds the Run
\* block of an ancestor.
C13_Witness ==
    /\ renders >= 1
    /\ script.retry
    /\ \E i \in 1..Len(script.cleanup_dependencies) :
          /\ script.cleanup_dependencies[i].kind = "plain"
          /\ script.cleanup_dependencies[i].block.op = "run"
    /\ \E i \in 1..Len(script.setup_dependencies) :
          script.setup_dependencies[i].kind = "try_run"

\* C14: the quoting of the retry wrapper round-trips.  For every block over
\* the alphabet (letter, single quote, space, newline, backslash) bash reads
\* the emitted line to its end as exactly two words, try_run and one
\* argument, and the argument equals the block character for character;
\* while it reads, the argument read so far is a prefix of the block.
C14_QuotingRoundTrips ==
    /\ qMode = "done" => (qPos = Len(qLine) /\ qWords = <<tryRunText, qBlock>>)
    /\ (qMode \in {"blank", "word", "quoted"} /\ qPos = Len(qLine)) => FALSE
    /\ Len(qWords) <= 2
    /\ Len(qWords) = 2 => IsPrefix(qWords[2], qBlock)

\* bash has read the whole line of a block that holds a single quote, a
\* newline and a space.
C14_Witness ==
    /\ qMode = "done"
    /\ \E i, j, k \in 1..Len(qBlock) :
          qBlock[i] = SQ /\ qBlock[j] = "\n" /\ qBlock[k] = " "
    /\ qWords[2] = qBlock

\* A listener leaves a send in this step.
SendCompletes(pc, pcNext, sends) == pc \in sends /\ pcNext # pc

\* What completes when Run returns from its wait, and only then: a receive
\* from exactly one listener, or the cancellation alone.
C15_OneEvent ==
    LET outSent == SendCompletes(outPc, outPc', {"sendOut", "sendErr"})
        errSent == SendCompletes(errPc, errPc', {"send"})
    IN  /\ (outSent \/ errSent) => (runPc = "select" /\ runPc' = "idle")
        /\ ~(outSent /\ errSent)
        /\ (runPc = "select" /\ runPc' # "select") =>
              /\ runPc' = "idle"
              /\ runCount' = runCount + 1
              /\ (~outSent /\ ~errSent) => (cancelled /\ lastRun'.err = CanceledErr)

\* C15: a Run that is in its three-way wait once the session is cancelled
\* eventually returns, and a Run takes exactly one event: one value from one
\* listener, or the cancellation.
C15_PendingRunReturns ==
    /\ (runPc = "select" /\ cancelled) ~> (runPc = "idle")
    /\ [][C15_OneEvent]_vars

\* A Run that was waiting when Close cancelled the session returned the
\* cancellation error after having written its command and probe.
C15_Witness ==
    /\ runCount >= 1
    /\ lastRun.err = CanceledErr
    /\ lastRun.wrote = 2
    /\ ~lastRun.afterClose

\* C16: after Close both listeners eventually stop: once the session is
\* cancelled and the process has exited, the stdout listener and the stderr
\* listener each reach their end.
C16_ListenersStopAfterClose ==
    (cancelled /\ procState = "exited") ~> (outPc = "done" /\ errPc = "done")

\* The command's output with the OK sentinel does not fit the buffer.
Overflows(c) ==
    /\ c \in CmdNames
    /\ Len(StdoutOf(c)) + Len(OKText \o NL) > bufferSize

\* C17: buffer overflow loses data but never the response: a Run of a
\* command whose output fills the accumulator before the sentinel arrives
\* still returns once the sentinel has been written, wherever the capacity
\* boundary falls in the stream.
C17_OverflowKeepsResponse ==
    (runPc = "select" /\ Overflows(runCmd)) ~> (runPc = "idle")

\* The commands of a body as the tree's builder gave them, without what
\* BashString calls have put in front.
IsRunBlock(b) == b.op = "run"
IsCleanupBlock(b) == b.op = "cleanup"
BuiltRun(x) == SelectSeq(run[x], IsRunBlock)
BuiltCleanup(x) == SelectSeq(cleanup[x], IsCleanupBlock)

\* The linearizations as functions of the tree alone.
RECURSIVE TreeSetup(_)
TreeSetup(x) ==
    Flatten([i \in 1..Len(parents[x]) |-> TreeSetup(parents[x][i])])
        \o <<setupMarker(x), cdDir(x)>>
        \o BuiltRun(x)

TreeCleanup(x) ==
    <<cleanupMarker(x), cdDir(x)>>
        \o BuiltCleanup(x)
        \o Flatten([i \in 1..Len(parents[x]) |-> TreeSetup(parents[x][i])])

\* C18: linearization is a pure function of the tree.  The script rendered
\* for a suite, first or after another suite was rendered, holds the
\* sequences computed from the tree alone, with the marker and the cd once
\* in front of each suite's own Run and Cleanup body.
C18_RenderIndependentOfHistory ==
    (renders >= 1 /\ entry = "none" /\ target.suite # prevTarget.suite) =>
        LET s == target.suite IN
        /\ Blocks(script.setup_dependencies)
              = Flatten([i \in 1..Len(parents[s]) |-> TreeSetup(parents[s][i])])
        /\ Blocks(script.setup_main) = <<setupMarker(s), cdDir(s)>> \o BuiltRun(s)
        /\ Blocks(script.cleanup_dependencies)
              = Flatten([i \in 1..Len(parents[s]) |-> TreeCleanup(parents[s][i])])
        /\ Blocks(script.cleanup_main) = <<cleanupMarker(s), cdDir(s)>> \o BuiltCleanup(s)

\* The state of the session.
Phase ==
    IF ~initialized THEN "Uninitialized"
    ELSE IF ~cancelled THEN "Running"
    ELSE "Closed"

\* A call of Run or Close has begun, or has returned.
Called == runPc # "idle" \/ closePc # "idle" \/ runCount > 0 \/ closeCount > 0

C19_State ==
    /\ Called <=> initialized
    /\ initialized => (starts = 1 /\ listeners = 2 /\ procState # "none")
    /\ ~initialized =>
          (starts = 0 /\ listeners = 0 /\ procState = "none"
              /\ outPc = "none" /\ errPc = "none")
    /\ cancelled => initialized
    /\ closeCount >= 1 => Phase = "Closed"

C19_Step ==
    /\ Phase = "Uninitialized" => Phase' \in {"Uninitialized", "Running"}
    /\ Phase = "Running" => Phase' \in {"Running", "Closed"}
    /\ Phase = "Closed" => Phase' = "Closed"
    /\ Phase' # Phase =>
          \/ Phase' = "Running" /\ (runPc' = "ctx" \/ closePc' = "cancel")
          \/ Phase' = "Closed" /\ closePc = "cancel"
    /\ procState = "exited" => procState' = "exited"
    /\ starts' >= starts /\ listeners' >= listeners

\* C19: the lifecycle is monotone and initialization happens exactly once.
\* Over every interleaving of Run and Close calls the process is started
\* once and two listeners are launched, by the first call; the session
\* moves only from Uninitialized to Running to Closed.
C19_LifecycleMonotone == [](C19_State) /\ [][C19_Step]_vars

\* Two Runs and two Closes have returned on a session started once.
C19_Witness ==
    /\ runCount = 2
    /\ closeCount = 2
    /\ starts = 1
    /\ listeners = 2
    /\ Phase = "Closed"

RECURSIVE SumSeq(_)
SumSeq(ns) == IF ns = <<>> THEN 0 ELSE Head(ns) + SumSeq(Tail(ns))

\* The number of Parents-paths from suite x up to suite a.
RECURSIVE Paths(_, _)
Paths(x, a) ==
    SumSeq([i \in 1..Len(parents[x]) |->
               (IF parents[x][i] = a THEN 1 ELSE 0) + Paths(parents[x][i], a)])

\* How many times u occurs in seq.
Occurrences(seq, u) == Cardinality({i \in 1..Len(seq) : OccursAt(seq, u, i)})

\* C20: ancestors are expanded per path, not deduplicated.  In the
\* setup_dependencies of a rendered suite every suite's marker, cd and Run
\* body occur as many times as there are Parents-paths from the rendered
\* suite to it: twice for the ancestor shared by the two parents of a
\* diamond, never for a suite that is not an ancestor.
C20_AncestorsPerPath ==
    (renders >= 1 /\ entry = "none") =>
        \A a \in Suites :
            Occurrences(Blocks(script.setup_dependencies), SetupUnit(a))
                = Paths(target.suite, a)

\* The suite with two parents has been rendered: their shared parent's
\* setup is in its setup_dependencies twice.
C20_Witness ==
    /\ renders >= 1
    /\ entry = "none"
    /\ Len(parents[target.suite]) = 2
    /\ \E a \in Suites :
          /\ Paths(target.suite, a) = 2
          /\ Occurrences(Blocks(script.setup_dependencies), SetupUnit(a)) = 2

====
